---- MODULE Spec2Model ----
(***************************************************************************)
(* The in-memory item Store (class Database, db.js) of the Fastify CRUD    *)
(* API: a Map from numeric id to item, an id counter, and the five         *)
(* operations create, findAll, findById, update and delete; and the        *)
(* /items routes (routes/items.js) that call them.                         *)
(*                                                                         *)
(* JavaScript values are represented as follows.                           *)
(*   number      [nan |-> BOOLEAN, val |-> Int]   (NaN has nan = TRUE)     *)
(*   string      a sequence of one-character strings (id inputs) or a      *)
(*               TLA+ string (item names)                                  *)
(*   object      a function from the names of its own properties to their  *)
(*               values; {...a, ...b} is b @@ a (the later spread wins)    *)
(*   Map         the sequence of its [key, val] entries in insertion order *)
(*   ISO string  the pair <<seconds, milliseconds>> that toISOString       *)
(*               prints, ordered as the strings are: lexicographically     *)
(*   undefined / null / an item: the `kind` of a returned value            *)
(***************************************************************************)
EXTENDS Integers, Sequences, FiniteSets, TLC

VARIABLES
  items,      \* this.items: the Map, as its entries in insertion order
  currentId,  \* this.currentId
  now,        \* the wall clock, in milliseconds
  last,       \* the call made by the last step and what it returned
  created,    \* history: the id of the item each create call returned, in call order
  removed,    \* history: the number of delete calls that returned true
  reply,      \* the HTTP response to the request handled last
  pending     \* the requests received whose handler has not run yet

vars == <<items, currentId, now, last, created, removed, reply, pending>>

(***************************************************************************)
(* Bounds of the model.                                                    *)
(***************************************************************************)
MaxCreates == 2
MaxTicks == 1

MsPerSecond == 1000

\* The clock starts one millisecond before a second boundary.
ClockStart == MsPerSecond - 1

MaxClock == ClockStart + MaxTicks

(***************************************************************************)
(* JavaScript numbers, and Map's key equality (SameValueZero).             *)
(***************************************************************************)
Num(n) == [nan |-> FALSE, val |-> n]

NaN == [nan |-> TRUE, val |-> 0]

SameValueZero(a, b) == a = b

(***************************************************************************)
(* Date.prototype.toISOString: "...:ss.sssZ".  The seconds and the         *)
(* milliseconds are separate fields of the text.                           *)
(***************************************************************************)
toISOString(t) == <<t \div MsPerSecond, t % MsPerSecond>>

\* String comparison of two ISO timestamps (a <= b).
IsoLeq(a, b) == a[1] < b[1] \/ (a[1] = b[1] /\ a[2] <= b[2])

(***************************************************************************)
(* parseInt(string) with no radix argument: leading white space is         *)
(* skipped, then an optional sign, then an optional 0x / 0X prefix         *)
(* selecting radix 16; the longest prefix of digits of the radix is the    *)
(* value, and the result is NaN when that prefix is empty.                 *)
(***************************************************************************)
DigitChars == <<"0", "1", "2", "3", "4", "5", "6", "7", "8", "9",
                "a", "b", "c", "d", "e", "f">>

UpperChars == <<"0", "1", "2", "3", "4", "5", "6", "7", "8", "9",
                "A", "B", "C", "D", "E", "F">>

\* The value of each digit character, in either case.
DigitValue ==
  [c \in {DigitChars[i] : i \in 1..16} \cup {UpperChars[i] : i \in 1..16} |->
     (CHOOSE i \in 1..16 : DigitChars[i] = c \/ UpperChars[i] = c) - 1]

\* The value of character c as a digit of the radix, or -1.
DigitVal(c, radix) ==
  IF c \in DOMAIN DigitValue /\ DigitValue[c] < radix THEN DigitValue[c] ELSE -1

RECURSIVE StripLeft(_)
StripLeft(s) ==
  IF s # <<>> /\ Head(s) = " " THEN StripLeft(Tail(s)) ELSE s

\* The longest digit prefix of s: [count |-> digits read, val |-> their value].
RECURSIVE ParseDigits(_, _, _)
ParseDigits(s, radix, acc) ==
  IF s = <<>> \/ DigitVal(Head(s), radix) < 0
    THEN acc
    ELSE ParseDigits(Tail(s), radix,
                     [count |-> acc.count + 1,
                      val   |-> acc.val * radix + DigitVal(Head(s), radix)])

\* Mutant: the digits are taken from anywhere in the text.
parseIntAnyDigits(s) ==
  LET digits == SelectSeq(s, LAMBDA c : DigitVal(c, 10) >= 0)
  IN  IF digits = <<>> THEN NaN
      ELSE Num(ParseDigits(digits, 10, [count |-> 0, val |-> 0]).val)

parseInt(s) ==
  LET t     == StripLeft(s)
      neg   == t # <<>> /\ Head(t) = "-"
      u     == IF t # <<>> /\ Head(t) \in {"+", "-"} THEN Tail(t) ELSE t
      hex   == Len(u) >= 2 /\ u[1] = "0" /\ u[2] \in {"x", "X"}
      body  == IF hex THEN SubSeq(u, 3, Len(u)) ELSE u
      radix == IF hex THEN 16 ELSE 10
      n     == ParseDigits(body, radix, [count |-> 0, val |-> 0])
  IN  IF n.count = 0 THEN NaN
      ELSE Num(IF neg THEN 0 - n.val ELSE n.val)

(***************************************************************************)
(* Map: has / get / set / delete / values.  get returns <<>> for undefined *)
(* and <<v>> for a value; set on a present key replaces the value in place *)
(* and on an absent key appends an entry.                                  *)
(***************************************************************************)
MapHas(m, k) == \E i \in DOMAIN m : SameValueZero(m[i].key, k)

MapGet(m, k) ==
  IF MapHas(m, k)
    THEN <<m[CHOOSE i \in DOMAIN m : SameValueZero(m[i].key, k)].val>>
    ELSE <<>>

\* Mutant: set always adds an entry.
MapSetAppend(m, k, v) == Append(m, [key |-> k, val |-> v])

\* Mutant: set on a present key moves the entry to the end.
MapSetMoveToEnd(m, k, v) ==
  Append(SelectSeq(m, LAMBDA e : ~SameValueZero(e.key, k)),
         [key |-> k, val |-> v])

MapSet(m, k, v) ==
  IF MapHas(m, k)
    THEN [i \in DOMAIN m |->
            IF SameValueZero(m[i].key, k) THEN [key |-> m[i].key, val |-> v]
            ELSE m[i]]
    ELSE Append(m, [key |-> k, val |-> v])

MapDeleteEntries(m, k) == SelectSeq(m, LAMBDA e : ~SameValueZero(e.key, k))

MapValues(m) == [i \in DOMAIN m |-> m[i].val]

MapKeys(m) == {m[i].key : i \in DOMAIN m}

(***************************************************************************)
(* Inputs.  A payload is any object; the ones drawn here have a subset of  *)
(* the properties id, name, createdAt and updatedAt.  An id input is the   *)
(* text of the :id path parameter.                                         *)
(***************************************************************************)
NoProps == [x \in {} |-> 0]

ForgedPast == <<0, 0>>

ForgedFuture == <<9, 0>>

\* The payloads of create calls: POST bodies, which carry a name.
CreatePayloads ==
  { [name |-> "A"],
    [name |-> "B", id |-> Num(1), createdAt |-> ForgedPast,
     updatedAt |-> ForgedFuture] }

\* The payloads of update calls: PUT bodies, which may omit every property.
UpdatePayloads == CreatePayloads \cup {NoProps}

NumText(n) == <<DigitChars[n + 1]>>

IdInputs ==
  {NumText(n) : n \in 1..MaxCreates}
    \cup {<<"a", "1">>, <<"1", "a">>, <<"1", ".", "5">>}

(***************************************************************************)
(* Returned values.                                                        *)
(***************************************************************************)
Returned(kind, val) == [kind |-> kind, val |-> val]

Call(op, id, data, ret) ==
  [op |-> op, id |-> id, data |-> data, kind |-> ret.kind, val |-> ret.val]

\* An HTTP response: status code and body (an item, the list of items, the
\* not-found error, a validation error, or nothing).
Reply(code, kind, val) == [code |-> code, kind |-> kind, val |-> val]

NoReply == Reply(0, "none", <<>>)

Init ==
  /\ items = <<>>
  /\ currentId = 1
  /\ now = ClockStart
  /\ last = Call("new", <<>>, NoProps, Returned("undefined", <<>>))
  /\ created = <<>>
  /\ removed = 0
  /\ reply = NoReply
  /\ pending = {}

(***************************************************************************)
(* create(data).  The clock is read twice, once for each timestamp, and    *)
(* may have advanced by then.                                              *)
(***************************************************************************)
CreateItem(id, data, t1, t2) ==
  ([createdAt |-> toISOString(t1), updatedAt |-> toISOString(t2)] @@ data)
    @@ [id |-> id]

\* Mutant: the id is derived from the size of the Map.
NextIdBySize == Num(Len(items) + 1)

\* The id a create call allocates: the counter's value.
NextId == Num(currentId)

Create(data) ==
  /\ currentId <= MaxCreates
  /\ \E t2 \in now..MaxClock :
       /\ t2 <= now + 1
       /\ LET id   == NextId
              item == CreateItem(id, data, now, t2)
          IN  /\ currentId' = currentId + 1
              /\ items' = MapSet(items, id, item)
              /\ now' = t2
              /\ last' = Call("create", <<>>, data, Returned("item", <<item>>))
              /\ created' = Append(created, item.id)
  /\ UNCHANGED removed

(***************************************************************************)
(* findAll() and findById(id).                                             *)
(***************************************************************************)
FindAll ==
  /\ last' = Call("findAll", <<>>, NoProps, Returned("array", MapValues(items)))
  /\ UNCHANGED <<items, currentId, now, created, removed>>

findById(m, id) ==
  LET got == MapGet(m, parseInt(id))
  IN  IF got = <<>> THEN Returned("undefined", <<>>) ELSE Returned("item", got)

FindById(id) ==
  /\ last' = Call("findById", id, NoProps, findById(items, id))
  /\ UNCHANGED <<items, currentId, now, created, removed>>

(***************************************************************************)
(* update(id, data).                                                       *)
(***************************************************************************)
\* Mutant: the payload is spread after the forced properties.
UpdateItemPayloadLast(item, data, t) ==
  (data @@ [id |-> item.id, createdAt |-> item.createdAt,
            updatedAt |-> toISOString(t)]) @@ item

\* Mutant: updatedAt is not refreshed.
UpdateItemStale(item, data, t) ==
  ([id |-> item.id, createdAt |-> item.createdAt] @@ data) @@ item

\* Mutant: the payload replaces the item instead of being merged into it.
UpdateItemReplace(item, data, t) ==
  [id |-> item.id, createdAt |-> item.createdAt, updatedAt |-> toISOString(t)]
    @@ data

UpdateItem(item, data, t) ==
  ([id |-> item.id, createdAt |-> item.createdAt, updatedAt |-> toISOString(t)]
     @@ data) @@ item

\* Mutant: an update of an id that has no item stores a new item.
UpdateUpsert(id, data) ==
  LET got  == MapGet(items, parseInt(id))
      item == IF got = <<>>
                THEN CreateItem(Num(currentId), data, now, now)
                ELSE UpdateItem(got[1], data, now)
  IN  /\ items' = MapSet(items, IF got = <<>> THEN Num(currentId)
                                 ELSE parseInt(id), item)
      /\ currentId' = IF got = <<>> THEN currentId + 1 ELSE currentId
      /\ last' = Call("update", id, data, Returned("item", <<item>>))
      /\ UNCHANGED <<now, created, removed>>

Update(id, data) ==
  LET got == MapGet(items, parseInt(id))
  IN  /\ IF got = <<>>
           THEN /\ last' = Call("update", id, data, Returned("null", <<>>))
                /\ UNCHANGED items
           ELSE LET updated == UpdateItem(got[1], data, now)
                IN  /\ items' = MapSet(items, parseInt(id), updated)
                    /\ last' = Call("update", id, data,
                                    Returned("item", <<updated>>))
      /\ UNCHANGED <<currentId, now, created, removed>>

(***************************************************************************)
(* delete(id): Map.prototype.delete returns whether the key was present.   *)
(***************************************************************************)
\* Mutant: delete reports a removal whether or not the key was present.
DeleteAlwaysTrue(id) ==
  /\ items' = MapDeleteEntries(items, parseInt(id))
  /\ last' = Call("delete", id, NoProps, Returned("true", <<>>))
  /\ removed' = removed + 1
  /\ UNCHANGED <<currentId, now, created>>

\* Mutant: deleting the item allocated last gives its id back to the counter.
DeleteReleasesId(id) ==
  LET k     == parseInt(id)
      found == MapHas(items, k)
  IN  /\ items' = MapDeleteEntries(items, k)
      /\ last' = Call("delete", id, NoProps,
                      Returned(IF found THEN "true" ELSE "false", <<>>))
      /\ removed' = IF found THEN removed + 1 ELSE removed
      /\ currentId' = IF found /\ k = Num(currentId - 1) THEN currentId - 1
                       ELSE currentId
      /\ UNCHANGED <<now, created>>

Delete(id) ==
  LET k     == parseInt(id)
      found == MapHas(items, k)
  IN  /\ items' = MapDeleteEntries(items, k)
      /\ last' = Call("delete", id, NoProps,
                      Returned(IF found THEN "true" ELSE "false", <<>>))
      /\ removed' = IF found THEN removed + 1 ELSE removed
      /\ UNCHANGED <<currentId, now, created>>

(***************************************************************************)
(* The clock advances between calls.                                       *)
(***************************************************************************)
Tick ==
  /\ now < MaxClock
  /\ now' = now + 1
  /\ last' = Call("tick", <<>>, NoProps, Returned("undefined", <<>>))
  /\ UNCHANGED <<items, currentId, created, removed>>

\* The Store called directly.
Next ==
  \/ (\E data \in CreatePayloads : Create(data)) /\ UNCHANGED <<reply, pending>>
  \/ FindAll /\ UNCHANGED <<reply, pending>>
  \/ (\E id \in IdInputs : FindById(id)) /\ UNCHANGED <<reply, pending>>
  \/ (\E id \in IdInputs, data \in UpdatePayloads : Update(id, data))
       /\ UNCHANGED <<reply, pending>>
  \/ (\E id \in IdInputs : Delete(id)) /\ UNCHANGED <<reply, pending>>
  \/ Tick /\ UNCHANGED <<reply, pending>>

Spec == Init /\ [][Next]_vars

(***************************************************************************)
(* The /items routes.  A handler is an async function with no await: it    *)
(* runs to completion, Store call included, in one step.  The POST body is *)
(* validated against the route's schema before the handler runs; a body    *)
(* that fails is answered 400 and the handler does not run.  The PUT       *)
(* schema requires nothing, and every body drawn here passes it.           *)
(***************************************************************************)
\* The bodies of POST requests: with and without a name.
PostBodies == CreatePayloads \cup {NoProps}

\* Mutant: the schema requires nothing.
ValidPostBodyAny(body) == TRUE

\* schema.body.required: ['name'].
ValidPostBody(body) == "name" \in DOMAIN body

NotFoundReply == Reply(404, "error", <<>>)

\* Mutant: the handler does not test the item.
ItemReplyAlwaysOk(ret) == Reply(200, "item", ret.val)

\* if (!item) { reply.code(404); return { error: 'Item not found' } }
\* return item
ItemReply(ret) ==
  IF ret.kind \in {"undefined", "null"} THEN NotFoundReply
  ELSE Reply(200, "item", ret.val)

\* if (!deleted) { 404 } reply.code(204); return
DeleteReply(ret) ==
  IF ret.kind = "false" THEN NotFoundReply ELSE Reply(204, "empty", <<>>)

\* The value the Store call of the step returned.
Ret == Returned(last'.kind, last'.val)

GetItems ==
  /\ FindAll
  /\ reply' = Reply(200, "list", Ret.val)

GetItem(id) ==
  /\ FindById(id)
  /\ reply' = ItemReply(Ret)

PostItem(body) ==
  IF ValidPostBody(body)
    THEN /\ Create(body)
         /\ reply' = Reply(201, "item", Ret.val)
    ELSE /\ reply' = Reply(400, "invalid", <<>>)
         /\ last' = Call("none", <<>>, body, Returned("undefined", <<>>))
         /\ UNCHANGED <<items, currentId, now, created, removed>>

PutItem(id, body) ==
  /\ Update(id, body)
  /\ reply' = ItemReply(Ret)

DeleteItem(id) ==
  /\ Delete(id)
  /\ reply' = DeleteReply(Ret)

\* The requests handled one after the other.
HttpNext ==
  \/ GetItems /\ UNCHANGED pending
  \/ (\E id \in IdInputs : GetItem(id)) /\ UNCHANGED pending
  \/ (\E body \in PostBodies : PostItem(body)) /\ UNCHANGED pending
  \/ (\E id \in IdInputs, body \in UpdatePayloads : PutItem(id, body))
       /\ UNCHANGED pending
  \/ (\E id \in IdInputs : DeleteItem(id)) /\ UNCHANGED pending
  \/ Tick /\ UNCHANGED <<reply, pending>>

HttpSpec == Init /\ [][HttpNext]_vars

(***************************************************************************)
(* Requests in flight.  A request is received, waits in the event loop     *)
(* and is then served: its handler runs to completion.  Requests received  *)
(* before one of them is served are concurrent and are served in any       *)
(* order.  A request records how many create calls had returned when it    *)
(* was received.                                                           *)
(***************************************************************************)
MaxPending == 2

Request(method, id, body) ==
  [method |-> method, id |-> id, body |-> body, seen |-> Len(created)]

\* The ids of concurrent requests: the ids the Store can hold.
ConcIds == {NumText(n) : n \in 1..MaxCreates}

Requests ==
  {Request("GET", <<>>, NoProps)}
    \cup {Request("GET", id, NoProps) : id \in ConcIds}
    \cup {Request("POST", <<>>, body) : body \in PostBodies}
    \cup {Request("PUT", id, body) : id \in ConcIds, body \in UpdatePayloads}
    \cup {Request("DELETE", id, NoProps) : id \in ConcIds}

Receive(req) ==
  /\ Cardinality(pending) < MaxPending
  /\ \A p \in pending : <<p.method, p.id, p.body>> # <<req.method, req.id, req.body>>
  /\ pending' = pending \cup {req}
  /\ UNCHANGED <<items, currentId, now, last, created, removed, reply>>

\* fastify.register(itemsRoutes, { prefix: '/items' }): the route of a request.
Route(req) ==
  \/ req.method = "GET" /\ req.id = <<>> /\ GetItems
  \/ req.method = "GET" /\ req.id # <<>> /\ GetItem(req.id)
  \/ req.method = "POST" /\ PostItem(req.body)
  \/ req.method = "PUT" /\ PutItem(req.id, req.body)
  \/ req.method = "DELETE" /\ DeleteItem(req.id)

Serve(req) ==
  /\ pending' = pending \ {req}
  /\ Route(req)

ConcNext ==
  \/ \E req \in Requests : Receive(req)
  \/ \E req \in pending : Serve(req)
  \/ Tick /\ UNCHANGED <<reply, pending>>

ConcSpec == Init /\ [][ConcNext]_vars

(***************************************************************************)
(* Vocabulary of the properties.                                           *)
(***************************************************************************)
NumLess(a, b) == ~a.nan /\ ~b.nan /\ a.val < b.val

\* The item the last call returned (when it returned one).
Result == last.val[1]

\* The key the Store has allocated, or can never allocate: every key but a
\* positive integer the counter has not reached yet.
Allocated(k, counter) == k.nan \/ k.val < counter

(***************************************************************************)
(* C1.  The id of the item each create call returns is strictly greater    *)
(* than the id of the item every earlier create call returned, whatever    *)
(* the payloads and whatever updates and deletes are interleaved.          *)
(***************************************************************************)
C1_CreateIdsIncrease ==
  \A i, j \in DOMAIN created : i < j => NumLess(created[i], created[j])

(***************************************************************************)
(* C2.  Every stored item's id is the positive integer key it is stored    *)
(* under, no two stored items share an id, and findById of an item's id    *)
(* returns that item.                                                      *)
(***************************************************************************)
C2_IdIsKey ==
  /\ \A i \in DOMAIN items :
       /\ items[i].val.id = items[i].key
       /\ ~items[i].key.nan /\ items[i].key.val > 0
       /\ findById(items, NumText(items[i].val.id.val))
            = Returned("item", <<items[i].val>>)
  /\ \A i, j \in DOMAIN items : i # j => items[i].val.id # items[j].val.id

(***************************************************************************)
(* C3.  The item a create call returns has createdAt equal to updatedAt.   *)
(***************************************************************************)
C3_CreateStampsEqual ==
  last.op = "create" => Result.createdAt = Result.updatedAt

(***************************************************************************)
(* Steps, recognised by the call they record.                              *)
(***************************************************************************)
\* The step is an update call that found an item.
UpdateHit == last'.op = "update" /\ last'.kind = "item"

\* The key the step's call was given, the item stored under it before the
\* step (as Map.get returns it) and the item the step returned.
CallKey == parseInt(last'.id)

Before == MapGet(items, CallKey)

After == last'.val[1]

\* The keys stored before and after the step.
Surviving == MapKeys(items) \cap MapKeys(items')

(***************************************************************************)
(* C4.  The item update(id, payload) returns and stores for an existing id *)
(* has the id and the createdAt of the item stored before, whatever the    *)
(* payload contains; no step changes a stored item's id or createdAt, and  *)
(* createdAt is the time create read when it stamped the item.             *)
(***************************************************************************)
C4_UpdateKeepsIdAndCreatedAt ==
  [][ /\ UpdateHit =>
           /\ Before # <<>>
           /\ After.id = Before[1].id
           /\ After.createdAt = Before[1].createdAt
           /\ MapGet(items', CallKey) = <<After>>
      /\ \A k \in Surviving :
           /\ MapGet(items', k)[1].id = MapGet(items, k)[1].id
           /\ MapGet(items', k)[1].createdAt = MapGet(items, k)[1].createdAt
      /\ last'.op = "create" => After.createdAt = toISOString(now)
    ]_vars

\* An update whose payload carries another id and another createdAt.
C4_Witness ==
  /\ last.op = "update" /\ last.kind = "item"
  /\ "id" \in DOMAIN last.data /\ last.data.id # Result.id
  /\ "createdAt" \in DOMAIN last.data /\ last.data.createdAt # Result.createdAt

(***************************************************************************)
(* C5.  A successful update sets updatedAt to the current time, which is   *)
(* not earlier than the updatedAt the item had, whatever updatedAt the     *)
(* payload carries; no step moves a stored item's updatedAt backwards, and *)
(* no stored item's updatedAt is earlier than its createdAt.               *)
(***************************************************************************)
C5_UpdateRefreshesUpdatedAt ==
  [][ /\ UpdateHit =>
           /\ After.updatedAt = toISOString(now')
           /\ Before # <<>> /\ IsoLeq(Before[1].updatedAt, After.updatedAt)
      /\ \A k \in Surviving :
           IsoLeq(MapGet(items, k)[1].updatedAt, MapGet(items', k)[1].updatedAt)
      /\ \A i \in DOMAIN items' :
           IsoLeq(items'[i].val.createdAt, items'[i].val.updatedAt)
    ]_vars

\* An update, later than the creation, whose payload carries an updatedAt.
C5_Witness ==
  /\ last.op = "update" /\ last.kind = "item"
  /\ "updatedAt" \in DOMAIN last.data /\ last.data.updatedAt # Result.updatedAt
  /\ Result.updatedAt # Result.createdAt
  /\ Result.updatedAt = toISOString(now)

\* What findById would return for the id before and after the step.
NotFound(m, id) == findById(m, id).kind = "undefined"

(***************************************************************************)
(* C6, as claimed.  After a call delete(id), findById(id) returns          *)
(* not-found in every later state: here in the state the call leaves and   *)
(* in the state the next call leaves, whatever that call is.               *)
(***************************************************************************)
C6_DeletedStaysNotFound ==
  [][ /\ last'.op = "delete" => NotFound(items', last'.id)
      /\ last.op = "delete" => NotFound(items', last.id)
    ]_vars

(***************************************************************************)
(* C6, amended.  delete(id) leaves id not found, and an id that the Store  *)
(* has already allocated (or can never allocate) and that is not found     *)
(* stays not found through every later call: create does not reassign it   *)
(* and update does not recreate it.                                        *)
(***************************************************************************)
C6_AllocatedIdStaysNotFound ==
  [][ /\ last'.op = "delete" => NotFound(items', last'.id)
      /\ \A id \in IdInputs :
           NotFound(items', id)
             \/ ~Allocated(parseInt(id), currentId)
             \/ ~NotFound(items, id)
    ]_vars

\* A create call made after the item of id 1 was removed.
C6_Witness ==
  /\ last.op = "create"
  /\ removed > 0
  /\ NotFound(items, NumText(1))
  /\ currentId > 2

(***************************************************************************)
(* C7.  delete(id) returns true exactly when an item was stored under id   *)
(* before the call, leaves no item under id and changes no other entry nor *)
(* the counter; when it returns false the Map is unchanged, and a second   *)
(* delete of the same id returns false and changes nothing.                *)
(***************************************************************************)
C7_DeleteReportsRemoval ==
  [][ last'.op = "delete" =>
        /\ last'.kind \in {"true", "false"}
        /\ last'.kind = "true" <=> Before # <<>>
        /\ MapGet(items', CallKey) = <<>>
        /\ \A k \in (MapKeys(items) \cup MapKeys(items')) \ {CallKey} :
             MapGet(items', k) = MapGet(items, k)
        /\ currentId' = currentId
        /\ last'.kind = "false" => items' = items
        /\ removed' = removed + (IF Before # <<>> THEN 1 ELSE 0)
        /\ (last.op = "delete" /\ last.id = last'.id) =>
             (last'.kind = "false" /\ items' = items)
    ]_vars

\* A delete of an id whose item an earlier delete removed, other items
\* being stored.
C7_Witness ==
  /\ last.op = "delete" /\ last.kind = "false"
  /\ removed > 0
  /\ ~parseInt(last.id).nan /\ parseInt(last.id).val < currentId
  /\ items # <<>>

(***************************************************************************)
(* C8.  After N create calls and M delete calls that returned true,        *)
(* findAll() returns N - M items, each stored under a key of its own.      *)
(***************************************************************************)
C8_FindAllCount ==
  /\ removed <= Len(created)
  /\ Len(MapValues(items)) = Len(created) - removed
  /\ \A i, j \in DOMAIN items : i # j => items[i].key # items[j].key
  /\ last.op = "findAll" =>
       /\ Len(last.val) = Len(created) - removed
       /\ last.val = MapValues(items)

\* findAll after two creates, a successful delete and an update.
C8_Witness ==
  /\ last.op = "findAll"
  /\ Len(created) = 2 /\ removed = 1 /\ Len(last.val) = 1
  /\ last.val[1].updatedAt # last.val[1].createdAt

(***************************************************************************)
(* C9.  update(id, payload) on an id with no stored item returns null and  *)
(* leaves the Map (hence findAll()) and the counter unchanged.             *)
(***************************************************************************)
C9_UpdateMissingIsNoOp ==
  [][ (last'.op = "update" /\ Before = <<>>) =>
        /\ last'.kind = "null"
        /\ items' = items
        /\ MapValues(items') = MapValues(items)
        /\ currentId' = currentId
    ]_vars

\* An update of an id that has no item although items are stored.
C9_Witness ==
  /\ last.op = "update" /\ last.kind = "null"
  /\ ~parseInt(last.id).nan
  /\ ~MapHas(items, parseInt(last.id))
  /\ items # <<>>

(***************************************************************************)
(* C10.  For an id text that does not start (after white space and an     *)
(* optional sign) with a digit, findById returns undefined, update returns *)
(* null and delete returns false, and the Map and the counter are          *)
(* unchanged.                                                              *)
(***************************************************************************)
IsDecimalDigit(c) == c \in {"0", "1", "2", "3", "4", "5", "6", "7", "8", "9"}

Unparsable(s) ==
  ~\E i \in 1..Len(s) :
     /\ IsDecimalDigit(s[i])
     /\ \A j \in 1..(i - 1) :
          s[j] = " " \/ (j = i - 1 /\ s[j] \in {"+", "-"})

C10_UnparsableIdIsNotFound ==
  [][ (last'.op \in {"findById", "update", "delete"} /\ Unparsable(last'.id)) =>
        /\ last'.op = "findById" => last'.kind = "undefined"
        /\ last'.op = "update" => last'.kind = "null"
        /\ last'.op = "delete" => last'.kind = "false"
        /\ items' = items
        /\ currentId' = currentId
    ]_vars

\* An update with an unparsable id while an item is stored whose id's digits
\* occur in the text.
C10_Witness ==
  /\ last.op = "update" /\ last.kind = "null"
  /\ Unparsable(last.id) /\ last.id # <<>>
  /\ \E i \in DOMAIN items : NumText(items[i].key.val) = Tail(last.id)

(***************************************************************************)
(* C11.  GET, PUT and DELETE /items/:id answer 404 with the error body     *)
(* exactly when the Store holds no item for the id (under the key the id   *)
(* parses to) when the request is handled; otherwise GET answers 200 with  *)
(* the stored item, PUT 200 with the item as updated and DELETE 204 with   *)
(* an empty body.  A POST that reaches the Store answers 201 with the item *)
(* created.                                                                *)
(***************************************************************************)
C11_RoutesStatus ==
  [][ /\ last'.op \in {"findById", "update", "delete"} =>
           /\ reply' = NotFoundReply <=> Before = <<>>
           /\ reply'.code = 404 <=> Before = <<>>
           /\ (Before # <<>> /\ last'.op = "findById") =>
                reply' = Reply(200, "item", Before)
           /\ (Before # <<>> /\ last'.op = "update") =>
                reply' = Reply(200, "item", MapGet(items', CallKey))
           /\ (Before # <<>> /\ last'.op = "delete") =>
                reply' = Reply(204, "empty", <<>>)
      /\ last'.op = "create" =>
           reply' = Reply(201, "item", MapGet(items', Num(currentId)))
    ]_vars

\* A GET of an id that has no item while another item is stored.
C11_Witness ==
  /\ last.op = "findById"
  /\ reply = NotFoundReply
  /\ ~parseInt(last.id).nan
  /\ items # <<>>

(***************************************************************************)
(* C12.  A POST whose body has no name is answered 400 without calling the *)
(* Store: no item is stored and the counter keeps its value, so a valid    *)
(* POST is allocated the id that follows the ids of the earlier valid      *)
(* POSTs, whatever invalid ones came between.                              *)
(***************************************************************************)
C12_InvalidPostIsRejected ==
  [][ /\ (last'.op \in {"create", "none"} /\ "name" \notin DOMAIN last'.data) =>
           /\ last'.op = "none"
           /\ reply'.code = 400
           /\ items' = items
           /\ currentId' = currentId
           /\ created' = created
      /\ last'.op = "create" =>
           /\ ~MapHas(items, Num(Len(created) + 1))
           /\ MapHas(items', Num(Len(created) + 1))
    ]_vars

\* A POST without a name rejected after a valid POST was served.
C12_Witness ==
  /\ last.op = "none" /\ "name" \notin DOMAIN last.data
  /\ reply.code = 400
  /\ Len(created) = 1 /\ currentId = 2


\* C13: under every interleaving of concurrently arriving requests each
\* handler's Store call is one atomic step, so a POST /items request receives
\* an id different from the id of every POST served while it was waiting, and
\* its create is not lost: the collection grows by one entity.
C13_ConcurrentPostsDistinctIds ==
  [][ \A req \in pending \ pending' :
        (req.method = "POST" /\ last'.op = "create") =>
          /\ \A j \in (req.seen + 1)..Len(created) : created[j] # reply'.val[1].id
          /\ Len(items') = Len(items) + 1
    ]_vars

\* The keys update sets itself, after the payload.
ProtectedKeys == {"id", "createdAt", "updatedAt"}

\* C14: a PUT for an existing id is answered 200 with the stored entity, in
\* which every payload field other than id, createdAt and updatedAt has the
\* payload's value and every other field the item had keeps its value (a
\* payload without name keeps the name); no other stored entity changes.
C14_UpdateMerges ==
  [][ /\ UpdateHit =>
           /\ Before # <<>>
           /\ reply' = Reply(200, "item", <<After>>)
           /\ MapGet(items', CallKey) = <<After>>
           /\ DOMAIN After = DOMAIN Before[1] \cup DOMAIN last'.data
           /\ \A f \in DOMAIN last'.data \ ProtectedKeys :
                After[f] = last'.data[f]
           /\ \A f \in DOMAIN Before[1] \ (DOMAIN last'.data \cup ProtectedKeys) :
                After[f] = Before[1][f]
      /\ last'.op = "update" =>
           /\ MapKeys(items') = MapKeys(items)
           /\ \A k \in MapKeys(items) \ {CallKey} :
                MapGet(items', k) = MapGet(items, k)
    ]_vars

\* An update without name of one of two stored items, which keeps its name.
C14_Witness ==
  /\ last.op = "update" /\ last.kind = "item" /\ reply.code = 200
  /\ "name" \notin DOMAIN last.data
  /\ "name" \in DOMAIN Result
  /\ Len(items) = 2

\* The text is a decimal numeral, and the integer it denotes.
ExactId(s) == s # <<>> /\ \A i \in DOMAIN s : IsDecimalDigit(s[i])

DecimalValue(s) == Num(ParseDigits(s, 10, [count |-> 0, val |-> 0]).val)

\* C15: findById, update and delete act on the entity whose integer id the
\* input exactly denotes; an input that is not a decimal numeral (such as
\* "1a" or "1.5" while an entity with id 1 exists) yields not-found and
\* changes nothing.
C15_ExactIdMatch ==
  [][ last'.op \in {"findById", "update", "delete"} =>
        IF ExactId(last'.id)
          THEN /\ CallKey = DecimalValue(last'.id)
               /\ last'.kind = "item" => last'.val = MapGet(items', CallKey)
               /\ \A k \in MapKeys(items) \ {CallKey} :
                    MapGet(items', k) = MapGet(items, k)
          ELSE /\ last'.kind \in {"undefined", "null", "false"}
               /\ items' = items
    ]_vars

\* C16: the counter is 1 on a fresh Store and is one more than the number of
\* create calls made; a create call increases it by exactly 1 and stores its
\* item under the counter's previous value, so the k-th create call is
\* allocated id k; findAll, findById, update and delete leave it unchanged.
C16_CounterCountsCreates ==
  [][ /\ currentId = Len(created) + 1
      /\ last'.op = "create" =>
           /\ currentId' = currentId + 1
           /\ Len(created') = Len(created) + 1
           /\ MapKeys(items') \ MapKeys(items) = {Num(Len(created'))}
      /\ last'.op \in {"findAll", "findById", "update", "delete"} =>
           /\ currentId' = currentId
           /\ created' = created
    ]_vars

\* The second create call, made after the first item was removed: its item
\* is stored under id 2.
C16_Witness ==
  /\ last.op = "create"
  /\ Len(created) = 2 /\ removed = 1
  /\ MapKeys(items) = {Num(2)}
  /\ currentId = 3

\* The storage keys in the order findAll lists their items.
KeyOrder(m) == [i \in DOMAIN m |-> m[i].key]

\* C17: findAll lists the stored items in the order of their creation, which
\* is the ascending order of their keys: create adds its item at the end,
\* delete takes one item out, a successful update replaces the item where it
\* is, and findAll changes neither the collection nor the counter.
C17_FindAllInCreationOrder ==
  [][ /\ \A i, j \in DOMAIN items' :
           i < j => NumLess(items'[i].key, items'[j].key)
      /\ last'.op = "findAll" =>
           /\ last'.val = MapValues(items)
           /\ items' = items
           /\ currentId' = currentId
      /\ last'.op = "create" =>
           KeyOrder(items') = Append(KeyOrder(items), Num(currentId))
      /\ last'.op = "update" => KeyOrder(items') = KeyOrder(items)
      /\ last'.op = "delete" =>
           KeyOrder(items') = SelectSeq(KeyOrder(items), LAMBDA k : k # CallKey)
    ]_vars

\* findAll lists two items, the first of which was updated after the second
\* was created.
C17_Witness ==
  /\ last.op = "findAll" /\ Len(last.val) = 2
  /\ last.val = MapValues(items)
  /\ ~IsoLeq(last.val[1].updatedAt, last.val[2].updatedAt)
  /\ IsoLeq(last.val[1].createdAt, last.val[2].createdAt)
====
